---- MODULE Spec2Model ----
(***************************************************************************)
(* Nullable scalar types String, Date, Time and Timestamp of package types *)
(* with their database (Scan / Value) and JSON (MarshalJSON /              *)
(* UnmarshalJSON) codecs, and CombineDateAndTime.                          *)
(*                                                                         *)
(* Texts and byte slices are sequences of one-character strings, so that   *)
(* formatting and parsing are computed character by character.             *)
(* A time.Time is the record [day, sod, nsec, off]: the instant is `day`   *)
(* whole days plus `sod` seconds plus `nsec` nanoseconds after             *)
(* 0001-01-01T00:00:00Z (the zero time), and `off` is the offset east of   *)
(* UTC, in seconds, of the location it is presented in.                    *)
(***************************************************************************)
EXTENDS Integers, Sequences, FiniteSets, TLC

VARIABLES str, date, tod, stamp, op, arg, ret

vars == <<str, date, tod, stamp, op, arg, ret>>

----------------------------------------------------------------------------
(* Bounds of the model.                                                    *)

\* Offsets east and west of UTC, in whole hours, of the date-time inputs.
MaxOffsetHours == 2

----------------------------------------------------------------------------
(* Characters and numbers.                                                 *)

Digits == <<"0", "1", "2", "3", "4", "5", "6", "7", "8", "9">>

DigitChars == {Digits[i] : i \in 1..10}

DigitVal(c) == (CHOOSE i \in 1..10 : Digits[i] = c) - 1

Drop(s, n) == SubSeq(s, n + 1, Len(s))

Take(s, n) == SubSeq(s, 1, n)

\* isDigit(s, i) of package time, with i counted from 1.
isDigit(s, i) == i <= Len(s) /\ s[i] \in DigitChars

StartsWith(s, c) == Len(s) >= 1 /\ s[1] = c

\* getnum of package time: one or two leading digits; two are required
\* when fixed.
getnum(s, fixed) ==
    IF ~isDigit(s, 1) THEN [ok |-> FALSE, n |-> 0, rest |-> s]
    ELSE IF ~isDigit(s, 2)
         THEN IF fixed THEN [ok |-> FALSE, n |-> 0, rest |-> s]
              ELSE [ok |-> TRUE, n |-> DigitVal(s[1]), rest |-> Drop(s, 1)]
         ELSE [ok |-> TRUE, n |-> 10 * DigitVal(s[1]) + DigitVal(s[2]),
               rest |-> Drop(s, 2)]

Pad2(n) == <<Digits[(n \div 10) + 1], Digits[(n % 10) + 1]>>

Pad4(n) == Pad2(n \div 100) \o Pad2(n % 100)

Abs(n) == IF n < 0 THEN -n ELSE n

----------------------------------------------------------------------------
(* package time: the calendar.                                             *)

SecondsPerMinute == 60

SecondsPerHour == 60 * SecondsPerMinute

\* 24 * time.Hour, in seconds.
SecondsPerDay == 24 * SecondsPerHour

isLeap(y) == y % 4 = 0 /\ (y % 100 # 0 \/ y % 400 = 0)

daysIn(m, y) ==
    IF m = 2 THEN (IF isLeap(y) THEN 29 ELSE 28)
    ELSE IF m \in {4, 6, 9, 11} THEN 30 ELSE 31

\* Days from 0001-01-01 to the civil date y-m-d (proleptic Gregorian).
DaysFromCivil(y, m, d) ==
    LET yy  == IF m <= 2 THEN y - 1 ELSE y
        era == yy \div 400
        yoe == yy - era * 400
        mp  == IF m > 2 THEN m - 3 ELSE m + 9
        doy == ((153 * mp + 2) \div 5) + d - 1
        doe == yoe * 365 + (yoe \div 4) - (yoe \div 100) + doy
    IN  era * 146097 + doe - 306

\* The civil date of the day z days after 0001-01-01.
CivilFromDays(z) ==
    LET zz  == z + 306
        era == zz \div 146097
        doe == zz - era * 146097
        yoe == (doe - (doe \div 1460) + (doe \div 36524) - (doe \div 146096)) \div 365
        doy == doe - (365 * yoe + (yoe \div 4) - (yoe \div 100))
        mp  == (5 * doy + 2) \div 153
        d   == doy - ((153 * mp + 2) \div 5) + 1
        m   == IF mp < 10 THEN mp + 3 ELSE mp - 9
    IN  [year |-> yoe + era * 400 + (IF m <= 2 THEN 1 ELSE 0), month |-> m, day |-> d]

----------------------------------------------------------------------------
(* package time: time.Time.                                                *)

\* time.Time{}: the zero time, in UTC.
ZeroTime == [day |-> 0, sod |-> 0, nsec |-> 0, off |-> 0]

\* t.IsZero(): the instant is the zero time, whatever the location.
IsZero(t) == t.day = 0 /\ t.sod = 0 /\ t.nsec = 0

\* t.Equal(u): the same instant.
Equal(t, u) == t.day = u.day /\ t.sod = u.sod /\ t.nsec = u.nsec

LocalDay(t) == t.day + ((t.sod + t.off) \div SecondsPerDay)

LocalSod(t) == (t.sod + t.off) % SecondsPerDay

Year(t) == CivilFromDays(LocalDay(t)).year

Month(t) == CivilFromDays(LocalDay(t)).month

Day(t) == CivilFromDays(LocalDay(t)).day

Hour(t) == LocalSod(t) \div SecondsPerHour

Minute(t) == (LocalSod(t) % SecondsPerHour) \div SecondsPerMinute

Second(t) == LocalSod(t) % SecondsPerMinute

Nanosecond(t) == t.nsec

\* time.Date(y, m, d, h, mi, s, ns, loc) with loc at `off` seconds east.
GoDate(y, m, d, h, mi, s, ns, off) ==
    LET local == h * SecondsPerHour + mi * SecondsPerMinute + s - off
    IN  [day  |-> DaysFromCivil(y, m, d) + (local \div SecondsPerDay),
         sod  |-> local % SecondsPerDay,
         nsec |-> ns,
         off  |-> off]

\* t.UTC(): the same instant, presented in UTC.
UTC(t) == [t EXCEPT !.off = 0]

\* t.Truncate(d) for d a whole number of seconds dividing a day: rounds the
\* time elapsed since the zero time down to a multiple of d and keeps the
\* location.
Truncate(t, dsec) == [t EXCEPT !.sod = t.sod - (t.sod % dsec), !.nsec = 0]

----------------------------------------------------------------------------
(* package time: Format and Parse for the three layouts of the package.    *)

\* t.Format(dateFormat), dateFormat = "2006-01-02", in t's location.
FormatDate(t) ==
    Pad4(Year(t)) \o <<"-">> \o Pad2(Month(t)) \o <<"-">> \o Pad2(Day(t))

\* t.Format(timeFormat), timeFormat = "15:04", in t's location.
FormatClock(t) == Pad2(Hour(t)) \o <<":">> \o Pad2(Minute(t))

\* The "Z07:00" element of time.RFC3339: Z for offset zero, else +hh:mm.
FormatZone(off) ==
    IF off = 0 THEN <<"Z">>
    ELSE <<IF off < 0 THEN "-" ELSE "+">>
         \o Pad2(Abs(off) \div SecondsPerHour) \o <<":">>
         \o Pad2((Abs(off) % SecondsPerHour) \div SecondsPerMinute)

\* t.Format(timestampFormat), timestampFormat = time.RFC3339 =
\* "2006-01-02T15:04:05Z07:00", in t's location.
FormatRFC3339(t) ==
    FormatDate(t) \o <<"T">> \o FormatClock(t) \o <<":">> \o Pad2(Second(t))
    \o FormatZone(t.off)

ParseFailed == [ok |-> FALSE, t |-> ZeroTime]

\* The "2006" element: exactly four digits.
ParseYear(s) ==
    IF Len(s) >= 4 /\ \A i \in 1..4 : s[i] \in DigitChars
    THEN [ok |-> TRUE,
          n  |-> 1000 * DigitVal(s[1]) + 100 * DigitVal(s[2])
                 + 10 * DigitVal(s[3]) + DigitVal(s[4]),
          rest |-> Drop(s, 4)]
    ELSE [ok |-> FALSE, n |-> 0, rest |-> s]

\* The "2006-01-02" prefix shared by dateFormat and time.RFC3339: year,
\* "-", two-digit month in 1..12, "-", two-digit day in the month.
ParseYMD(s) ==
    LET y  == ParseYear(s)
        mo == getnum(Drop(y.rest, 1), TRUE)
        d  == getnum(Drop(mo.rest, 1), TRUE)
    IN  IF /\ y.ok /\ StartsWith(y.rest, "-")
           /\ mo.ok /\ mo.n >= 1 /\ mo.n <= 12 /\ StartsWith(mo.rest, "-")
           /\ d.ok /\ d.n >= 1 /\ d.n <= daysIn(mo.n, y.n)
        THEN [ok |-> TRUE, year |-> y.n, month |-> mo.n, day |-> d.n, rest |-> d.rest]
        ELSE [ok |-> FALSE, year |-> 0, month |-> 0, day |-> 0, rest |-> s]

\* time.Parse(dateFormat, s): the date at 00:00:00 UTC; any text left over
\* is an error.
ParseDate(s) ==
    LET p == ParseYMD(s)
    IN  IF p.ok /\ p.rest = <<>>
        THEN [ok |-> TRUE, t |-> GoDate(p.year, p.month, p.day, 0, 0, 0, 0, 0)]
        ELSE ParseFailed

\* The "15:04" element pair: the hour is read by getnum(value, false), one
\* or two digits, below 24; the minute by getnum(value, true), two digits,
\* below 60.
ParseHM(s) ==
    LET h  == getnum(s, FALSE)
        mi == getnum(Drop(h.rest, 1), TRUE)
    IN  IF /\ h.ok /\ h.n < 24 /\ StartsWith(h.rest, ":")
           /\ mi.ok /\ mi.n < 60
        THEN [ok |-> TRUE, hour |-> h.n, minute |-> mi.n, rest |-> mi.rest]
        ELSE [ok |-> FALSE, hour |-> 0, minute |-> 0, rest |-> s]

\* time.Parse(timeFormat, s): year 0, January 1, in UTC (only its hour and
\* minute are read by the caller).
ParseClock(s) ==
    LET p == ParseHM(s)
    IN  IF p.ok /\ p.rest = <<>>
        THEN [ok |-> TRUE, t |-> GoDate(0, 1, 1, p.hour, p.minute, 0, 0, 0)]
        ELSE ParseFailed

RECURSIVE CountDigits(_, _)
\* The number of digits of s from position i on.
CountDigits(s, i) == IF isDigit(s, i) THEN 1 + CountDigits(s, i + 1) ELSE 0

RECURSIVE Pow10(_)
Pow10(n) == IF n = 0 THEN 1 ELSE 10 * Pow10(n - 1)

RECURSIVE FracNanos(_, _)
\* parseNanoseconds: the digits d1 d2 ... after the separator, scaled to
\* nanoseconds (digits past the ninth are dropped).
FracNanos(ds, i) ==
    IF i > Len(ds) \/ i > 9 THEN 0
    ELSE DigitVal(ds[i]) * Pow10(9 - i) + FracNanos(ds, i + 1)

\* A fractional second in the input although the layout has none: "." or
\* "," followed by at least one digit.
ParseFrac(s) ==
    IF Len(s) >= 2 /\ s[1] \in {".", ","} /\ isDigit(s, 2)
    THEN LET k == CountDigits(s, 2)
         IN  [nsec |-> FracNanos(SubSeq(s, 2, k + 1), 1), rest |-> Drop(s, k + 1)]
    ELSE [nsec |-> 0, rest |-> s]

\* The "Z07:00" element: "Z", or a sign, two digits, ":", two digits, with
\* hours up to 24 and minutes up to 60.
ParseZone(s) ==
    IF StartsWith(s, "Z") THEN [ok |-> TRUE, off |-> 0, rest |-> Drop(s, 1)]
    ELSE LET hr == getnum(SubSeq(s, 2, 3), TRUE)
             mm == getnum(SubSeq(s, 5, 6), TRUE)
             mag == (hr.n * 60 + mm.n) * SecondsPerMinute
         IN  IF /\ Len(s) >= 6 /\ s[4] = ":" /\ s[1] \in {"+", "-"}
                /\ hr.ok /\ mm.ok /\ hr.n <= 24 /\ mm.n <= 60
             THEN [ok |-> TRUE, off |-> IF s[1] = "-" THEN -mag ELSE mag,
                   rest |-> Drop(s, 6)]
             ELSE [ok |-> FALSE, off |-> 0, rest |-> s]

\* time.Parse(time.RFC3339, s): the instant read, in the zone read.
ParseRFC3339(s) ==
    LET d   == ParseYMD(s)
        hm  == ParseHM(Drop(d.rest, 1))
        sec == getnum(Drop(hm.rest, 1), TRUE)
        fr  == ParseFrac(sec.rest)
        z   == ParseZone(fr.rest)
    IN  IF /\ d.ok /\ StartsWith(d.rest, "T")
           /\ hm.ok /\ StartsWith(hm.rest, ":")
           /\ sec.ok /\ sec.n < 60
           /\ z.ok /\ z.rest = <<>>
        THEN [ok |-> TRUE,
              t  |-> GoDate(d.year, d.month, d.day, hm.hour, hm.minute, sec.n,
                            fr.nsec, z.off)]
        ELSE ParseFailed

----------------------------------------------------------------------------
(* package encoding/json, for a Go string.                                 *)

Quote == "\""

Backslash == "\\"

NullLiteral == <<"n", "u", "l", "l">>

EmptyStringLiteral == <<Quote, Quote>>

RECURSIVE EscapeJSON(_)
\* The body of a JSON string literal: quote and backslash are escaped.
EscapeJSON(s) ==
    IF s = <<>> THEN <<>>
    ELSE (IF Head(s) \in {Quote, Backslash} THEN <<Backslash, Head(s)>> ELSE <<Head(s)>>)
         \o EscapeJSON(Tail(s))

\* json.Marshal(s) for a string s.
JSONMarshalString(s) == <<Quote>> \o EscapeJSON(s) \o <<Quote>>

RECURSIVE UnescapeJSON(_)
\* The text of the body of a JSON string literal; an unescaped quote, a
\* backslash at the end and an unknown escape are errors.
UnescapeJSON(b) ==
    IF b = <<>> THEN [ok |-> TRUE, s |-> <<>>]
    ELSE IF Head(b) = Quote THEN [ok |-> FALSE, s |-> <<>>]
    ELSE IF Head(b) = Backslash
         THEN IF Len(b) >= 2 /\ b[2] \in {Quote, Backslash, "/"}
              THEN LET r == UnescapeJSON(Drop(b, 2))
                   IN  [ok |-> r.ok, s |-> <<b[2]>> \o r.s]
              ELSE [ok |-> FALSE, s |-> <<>>]
    ELSE LET r == UnescapeJSON(Tail(b))
         IN  [ok |-> r.ok, s |-> <<Head(b)>> \o r.s]

\* json.Unmarshal(data, &str) for a string str: data must be one JSON
\* string literal.
JSONUnmarshalString(data) ==
    IF Len(data) >= 2 /\ data[1] = Quote /\ data[Len(data)] = Quote
    THEN UnescapeJSON(SubSeq(data, 2, Len(data) - 1))
    ELSE [ok |-> FALSE, s |-> <<>>]

\* The quote handling of Date, Time and Timestamp.UnmarshalJSON: one pair
\* of surrounding quotes is removed when both are there.
StripQuotes(b) ==
    IF Len(b) >= 2 /\ b[1] = Quote /\ b[Len(b)] = Quote
    THEN SubSeq(b, 2, Len(b) - 1)
    ELSE b

\* fmt.Sprintf(`"%s"`, text).
Quoted(text) == <<Quote>> \o text \o <<Quote>>

----------------------------------------------------------------------------
(* Values of the database driver (driver.Value / any) and results.         *)

Nil == [kind |-> "nil"]

StringOf(s) == [kind |-> "string", s |-> s]

BytesOf(b) == [kind |-> "bytes", data |-> b]

TimeOf(t) == [kind |-> "time", t |-> t]

\* A value of a kind no Scan accepts.
Int64Of(n) == [kind |-> "int64", n |-> n]

Ok == [kind |-> "ok"]

Error == [kind |-> "error"]

\* What a decoding method leaves in its receiver, and whether it returned
\* an error.
Done(self) == [self |-> self, err |-> FALSE]

Fail(self) == [self |-> self, err |-> TRUE]

----------------------------------------------------------------------------
(* type String                                                             *)

\* String{}: the zero value.
AbsentString == [Val |-> <<>>, Valid |-> FALSE]

NewString(s) == [Val |-> s, Valid |-> TRUE]

StringScan(self, value) ==
    IF value.kind = "nil" THEN Done(AbsentString)
    ELSE IF value.kind = "string" THEN Done([Val |-> value.s, Valid |-> TRUE])
    ELSE IF value.kind = "bytes" THEN Done([Val |-> value.data, Valid |-> TRUE])
    ELSE Fail(self)

StringValue(self) == IF ~self.Valid THEN Nil ELSE StringOf(self.Val)

\* A faulty MarshalJSON that writes the text without quoting it, so that a
\* present String holding the text null reads as the literal null.
StringMarshalJSON_Unquoted(self) ==
    IF ~self.Valid THEN BytesOf(NullLiteral)
    ELSE BytesOf(self.Val)

StringMarshalJSON(self) ==
    IF ~self.Valid THEN BytesOf(NullLiteral)
    ELSE BytesOf(JSONMarshalString(self.Val))

StringUnmarshalJSON(self, data) ==
    IF data = NullLiteral THEN Done(AbsentString)
    ELSE LET r == JSONUnmarshalString(data)
         IN  IF ~r.ok THEN Fail(self)
             ELSE Done([Val |-> r.s, Valid |-> TRUE])

StringIsZero(self) == ~self.Valid \/ self.Val = <<>>

StringString(self) == IF ~self.Valid THEN <<>> ELSE self.Val

----------------------------------------------------------------------------
(* type Date                                                               *)

\* The zero value of Date, Time and Timestamp.
AbsentTime == [Time |-> ZeroTime, Valid |-> FALSE]

NewDate(t) == [Time |-> Truncate(t, SecondsPerDay), Valid |-> TRUE]

parseDateString(self, s) ==
    IF s = <<>> THEN Done(AbsentTime)
    ELSE LET p == ParseDate(s)
         IN  IF ~p.ok THEN Fail(self)
             ELSE Done([Time |-> p.t, Valid |-> TRUE])

DateScan(self, value) ==
    IF value.kind = "nil" THEN Done(AbsentTime)
    ELSE IF value.kind = "time"
         THEN Done([Time |-> Truncate(value.t, SecondsPerDay), Valid |-> TRUE])
    ELSE IF value.kind = "bytes" THEN parseDateString(self, value.data)
    ELSE IF value.kind = "string" THEN parseDateString(self, value.s)
    ELSE Fail(self)

DateValue(self) == IF ~self.Valid THEN Nil ELSE StringOf(FormatDate(self.Time))

DateMarshalJSON(self) ==
    IF ~self.Valid THEN BytesOf(NullLiteral)
    ELSE BytesOf(Quoted(FormatDate(self.Time)))

DateUnmarshalJSON(self, data) ==
    IF data = NullLiteral \/ data = EmptyStringLiteral THEN Done(AbsentTime)
    ELSE parseDateString(self, StripQuotes(data))

DateIsZero(self) == ~self.Valid \/ IsZero(self.Time)

DateString(self) == IF ~self.Valid THEN <<>> ELSE FormatDate(self.Time)

----------------------------------------------------------------------------
(* type Time                                                               *)

\* time.Date(1, 1, 1, h, m, 0, 0, time.UTC): the anchor of a time of day.
Anchored(h, m) == GoDate(1, 1, 1, h, m, 0, 0, 0)

\* A faulty NewTime that keeps the seconds of its argument.
NewTime_KeepSeconds(t) ==
    [Time |-> GoDate(1, 1, 1, Hour(t), Minute(t), Second(t), 0, 0), Valid |-> TRUE]

NewTime(t) == [Time |-> Anchored(Hour(t), Minute(t)), Valid |-> TRUE]

\* The length past which parseTimeString cuts its input.
TimeTextLen == 5

\* A faulty parseTimeString that hands the empty text to the parser instead
\* of treating it as absent.
parseTimeString_NoEmptyCheck(self, s) ==
    LET cut == IF Len(s) > TimeTextLen THEN Take(s, TimeTextLen) ELSE s
        p   == ParseClock(cut)
    IN  IF ~p.ok THEN Fail(self)
        ELSE Done([Time |-> Anchored(Hour(p.t), Minute(p.t)), Valid |-> TRUE])

\* A faulty parseTimeString that hands a long text to the parser whole.
parseTimeString_NoCut(self, s) ==
    IF s = <<>> THEN Done(AbsentTime)
    ELSE LET p == ParseClock(s)
         IN  IF ~p.ok THEN Fail(self)
             ELSE Done([Time |-> Anchored(Hour(p.t), Minute(p.t)), Valid |-> TRUE])

parseTimeString(self, s) ==
    IF s = <<>> THEN Done(AbsentTime)
    ELSE LET cut == IF Len(s) > TimeTextLen THEN Take(s, TimeTextLen) ELSE s
             p   == ParseClock(cut)
         IN  IF ~p.ok THEN Fail(self)
             ELSE Done([Time |-> Anchored(Hour(p.t), Minute(p.t)), Valid |-> TRUE])

TimeScan(self, value) ==
    IF value.kind = "nil" THEN Done(AbsentTime)
    ELSE IF value.kind = "time"
         THEN Done([Time |-> Anchored(Hour(value.t), Minute(value.t)), Valid |-> TRUE])
    ELSE IF value.kind = "bytes" THEN parseTimeString(self, value.data)
    ELSE IF value.kind = "string" THEN parseTimeString(self, value.s)
    ELSE Fail(self)

TimeValue(self) == IF ~self.Valid THEN Nil ELSE StringOf(FormatClock(self.Time))

TimeMarshalJSON(self) ==
    IF ~self.Valid THEN BytesOf(NullLiteral)
    ELSE BytesOf(Quoted(FormatClock(self.Time)))

TimeUnmarshalJSON(self, data) ==
    IF data = NullLiteral \/ data = EmptyStringLiteral THEN Done(AbsentTime)
    ELSE parseTimeString(self, StripQuotes(data))

TimeIsZero(self) == ~self.Valid \/ IsZero(self.Time)

TimeString(self) == IF ~self.Valid THEN <<>> ELSE FormatClock(self.Time)

----------------------------------------------------------------------------
(* type Timestamp                                                          *)

\* time.Second, in seconds.
OneSecond == 1

NewTimestamp(t) == [Time |-> Truncate(UTC(t), OneSecond), Valid |-> TRUE]

CombineDateAndTime(d, t) ==
    [Time  |-> GoDate(Year(d.Time), Month(d.Time), Day(d.Time),
                      Hour(t.Time), Minute(t.Time), Second(t.Time),
                      Nanosecond(t.Time), d.Time.off),
     Valid |-> TRUE]

parseTimestampString(self, s) ==
    IF s = <<>> THEN Done(AbsentTime)
    ELSE LET p == ParseRFC3339(s)
         IN  IF ~p.ok THEN Fail(self)
             ELSE Done([Time |-> Truncate(UTC(p.t), OneSecond), Valid |-> TRUE])

TimestampScan(self, value) ==
    IF value.kind = "nil" THEN Done(AbsentTime)
    ELSE IF value.kind = "time"
         THEN Done([Time |-> Truncate(UTC(value.t), OneSecond), Valid |-> TRUE])
    ELSE IF value.kind = "bytes" THEN parseTimestampString(self, value.data)
    ELSE IF value.kind = "string" THEN parseTimestampString(self, value.s)
    ELSE Fail(self)

TimestampValue(self) ==
    IF ~self.Valid THEN Nil ELSE TimeOf(Truncate(UTC(self.Time), OneSecond))

TimestampMarshalJSON(self) ==
    IF ~self.Valid THEN BytesOf(NullLiteral)
    ELSE BytesOf(JSONMarshalString(FormatRFC3339(Truncate(UTC(self.Time), OneSecond))))

TimestampUnmarshalJSON(self, data) ==
    IF data = NullLiteral \/ data = EmptyStringLiteral THEN Done(AbsentTime)
    ELSE parseTimestampString(self, StripQuotes(data))

TimestampIsZero(self) == ~self.Valid \/ IsZero(self.Time)

TimestampString(self) == IF ~self.Valid THEN <<>> ELSE FormatRFC3339(self.Time)

----------------------------------------------------------------------------
(* Inputs.                                                                 *)

\* Locations of the date-time inputs: UTC and one zone on each side of it.
Offsets == {-MaxOffsetHours * SecondsPerHour, 0, MaxOffsetHours * SecondsPerHour}

\* The wall-clock reading of the date-time inputs, with seconds and a
\* fraction of a second.
Clock == [h |-> 12, mi |-> 34, s |-> 56, ns |-> 500000000]

\* The date-times given to the constructors and, as driver values, to Scan:
\* 5 March 2024 at that reading, in each location.
DateTimes ==
    {GoDate(2024, 3, 5, Clock.h, Clock.mi, Clock.s, Clock.ns, off) : off \in Offsets}

StringTexts == { <<>>, <<"a", Quote>>, NullLiteral }

DateTexts ==
    { <<>>,
      <<"2", "0", "2", "4", "-", "0", "3", "-", "0", "5">>,
      <<"0", "0", "0", "1", "-", "0", "1", "-", "0", "1">>,
      <<"1", "3", "-", "9", "9", "-", "9", "9">> }

TimeTexts ==
    { <<>>,
      <<"1", "2", ":", "3", "4">>,
      <<"1", "2", ":", "3", "4", ":", "5", "6">>,
      <<"0", "0", ":", "0", "0">>,
      <<"0", ":", "0", "0">>,
      <<"2", "4", ":", "0", "0">> }

\* Texts longer than TimeTextLen given to a Time.
LongTimeTexts ==
    { <<"0", "9", ":", "1", "5", ":", "3", "0">>,
      <<"9", ":", "1", "5", ":", "3", "0">>,
      <<"1", "2", ":", "3", "4", "x", "y">>,
      <<"2", "3", ":", "5", "9", ":", "5", "9">>,
      <<"2", "4", ":", "0", "0", ":", "0", "0">>,
      <<"1", "2", ":", "6", "0", ":", "0", "0">>,
      <<"a", "b", ":", "c", "d", ":", "e", "f">>,
      <<"1", "2", "3", "4", "5", "6", "7">> }

TimestampTexts ==
    { <<>>,
      <<"2", "0", "2", "4", "-", "0", "3", "-", "0", "5", "T", "1", "2", ":", "3", "4", ":", "5", "6", "Z">>,
      <<"2", "0", "2", "4", "-", "0", "3", "-", "0", "5", "T", "1", "4", ":", "3", "4", ":", "5", "6", ".", "5", "0", "0", "+", "0", "2", ":", "0", "0">>,
      <<"0", "0", "0", "1", "-", "0", "1", "-", "0", "1", "T", "0", "0", ":", "0", "0", ":", "0", "0", "Z">>,
      <<"2", "0", "2", "4", "-", "0", "3", "-", "0", "5", " ", "1", "2", ":", "3", "4", ":", "5", "6">> }

\* Driver values given to Scan: NULL, an integer, each text as a string and
\* the texts of at most TimeTextLen characters also as a byte slice; for
\* the temporal types also each date-time.
TextValues(texts) ==
    {StringOf(x) : x \in texts} \cup {BytesOf(x) : x \in {y \in texts : Len(y) <= TimeTextLen}}

StringDriverValues == {Nil, Int64Of(42)} \cup TextValues(StringTexts)

TemporalDriverValues(texts) ==
    {Nil, Int64Of(42)} \cup TextValues(texts) \cup {TimeOf(x) : x \in DateTimes}

\* Driver values given to Time.Scan when long texts are among them: every
\* text as a string and as bytes.
TimeDriverValues ==
    TemporalDriverValues(TimeTexts)
        \cup {StringOf(x) : x \in LongTimeTexts}
        \cup {BytesOf(x) : x \in TimeTexts \cup LongTimeTexts}

\* Documents given to String.UnmarshalJSON: null, each text as a JSON
\* string, and one that is not a JSON string.
StringDocs ==
    {NullLiteral, <<"a">>} \cup {JSONMarshalString(x) : x \in StringTexts}

\* Documents given to the temporal types: null and each text in quotes.
TemporalDocs(texts) == {NullLiteral} \cup {Quoted(x) : x \in texts}

----------------------------------------------------------------------------
(* The program: one variable of each type, and every operation that        *)
(* builds or decodes a value.  op names the last call, arg is its argument *)
(* and ret what it returned.  Value, MarshalJSON, IsZero and String change nothing and are *)
(* the operators above.                                                    *)

Init ==
    /\ str = AbsentString
    /\ date = AbsentTime
    /\ tod = AbsentTime
    /\ stamp = AbsentTime
    /\ op = "init"
    /\ arg = Nil
    /\ ret = Ok

Called(name, a, r) == op' = name /\ arg' = a /\ ret' = r

Result(r) == IF r.err THEN Error ELSE Ok

CallNewString ==
    \E x \in StringTexts :
        /\ str' = NewString(x)
        /\ Called("NewString", StringOf(x), Ok)
        /\ UNCHANGED <<date, tod, stamp>>

CallStringScan ==
    \E v \in StringDriverValues :
        LET r == StringScan(str, v)
        IN  /\ str' = r.self
            /\ Called("String.Scan", v, Result(r))
            /\ UNCHANGED <<date, tod, stamp>>

CallStringUnmarshalJSON ==
    \E data \in StringDocs :
        LET r == StringUnmarshalJSON(str, data)
        IN  /\ str' = r.self
            /\ Called("String.UnmarshalJSON", BytesOf(data), Result(r))
            /\ UNCHANGED <<date, tod, stamp>>

CallNewDate ==
    \E t \in DateTimes :
        /\ date' = NewDate(t)
        /\ Called("NewDate", TimeOf(t), Ok)
        /\ UNCHANGED <<str, tod, stamp>>

CallDateScan ==
    \E v \in TemporalDriverValues(DateTexts) :
        LET r == DateScan(date, v)
        IN  /\ date' = r.self
            /\ Called("Date.Scan", v, Result(r))
            /\ UNCHANGED <<str, tod, stamp>>

CallDateUnmarshalJSON ==
    \E data \in TemporalDocs(DateTexts) :
        LET r == DateUnmarshalJSON(date, data)
        IN  /\ date' = r.self
            /\ Called("Date.UnmarshalJSON", BytesOf(data), Result(r))
            /\ UNCHANGED <<str, tod, stamp>>

CallNewTime ==
    \E t \in DateTimes :
        /\ tod' = NewTime(t)
        /\ Called("NewTime", TimeOf(t), Ok)
        /\ UNCHANGED <<str, date, stamp>>

CallTimeScan ==
    \E v \in TemporalDriverValues(TimeTexts) :
        LET r == TimeScan(tod, v)
        IN  /\ tod' = r.self
            /\ Called("Time.Scan", v, Result(r))
            /\ UNCHANGED <<str, date, stamp>>

CallTimeUnmarshalJSON ==
    \E data \in TemporalDocs(TimeTexts) :
        LET r == TimeUnmarshalJSON(tod, data)
        IN  /\ tod' = r.self
            /\ Called("Time.UnmarshalJSON", BytesOf(data), Result(r))
            /\ UNCHANGED <<str, date, stamp>>

CallNewTimestamp ==
    \E t \in DateTimes :
        /\ stamp' = NewTimestamp(t)
        /\ Called("NewTimestamp", TimeOf(t), Ok)
        /\ UNCHANGED <<str, date, tod>>

CallCombineDateAndTime ==
    /\ stamp' = CombineDateAndTime(date, tod)
    /\ Called("CombineDateAndTime", Nil, Ok)
    /\ UNCHANGED <<str, date, tod>>

CallTimestampScan ==
    \E v \in TemporalDriverValues(TimestampTexts) :
        LET r == TimestampScan(stamp, v)
        IN  /\ stamp' = r.self
            /\ Called("Timestamp.Scan", v, Result(r))
            /\ UNCHANGED <<str, date, tod>>

CallTimestampUnmarshalJSON ==
    \E data \in TemporalDocs(TimestampTexts) :
        LET r == TimestampUnmarshalJSON(stamp, data)
        IN  /\ stamp' = r.self
            /\ Called("Timestamp.UnmarshalJSON", BytesOf(data), Result(r))
            /\ UNCHANGED <<str, date, tod>>

Next ==
    \/ CallNewString
    \/ CallStringScan
    \/ CallStringUnmarshalJSON
    \/ CallNewDate
    \/ CallDateScan
    \/ CallDateUnmarshalJSON
    \/ CallNewTime
    \/ CallTimeScan
    \/ CallTimeUnmarshalJSON
    \/ CallNewTimestamp
    \/ CallCombineDateAndTime
    \/ CallTimestampScan
    \/ CallTimestampUnmarshalJSON

Spec == Init /\ [][Next]_vars

\* The Time alone, decoding long texts as well as short ones.
CallTimeScanAnyText ==
    \E v \in TimeDriverValues :
        LET r == TimeScan(tod, v)
        IN  /\ tod' = r.self
            /\ Called("Time.Scan", v, Result(r))
            /\ UNCHANGED <<str, date, stamp>>

CallTimeUnmarshalJSONAnyText ==
    \E data \in TemporalDocs(TimeTexts \cup LongTimeTexts) :
        LET r == TimeUnmarshalJSON(tod, data)
        IN  /\ tod' = r.self
            /\ Called("Time.UnmarshalJSON", BytesOf(data), Result(r))
            /\ UNCHANGED <<str, date, stamp>>

TimeNext ==
    \/ CallNewTime
    \/ CallTimeScanAnyText
    \/ CallTimeUnmarshalJSONAnyText

TimeSpec == Init /\ [][TimeNext]_vars

----------------------------------------------------------------------------
(* Vocabulary of the properties.                                           *)

ScanOps == {"String.Scan", "Date.Scan", "Time.Scan", "Timestamp.Scan"}

UnmarshalOps ==
    {"String.UnmarshalJSON", "Date.UnmarshalJSON", "Time.UnmarshalJSON",
     "Timestamp.UnmarshalJSON"}

\* The instance the last call built or decoded into.
Receiver ==
    IF op \in {"NewString", "String.Scan", "String.UnmarshalJSON"} THEN str
    ELSE IF op \in {"NewDate", "Date.Scan", "Date.UnmarshalJSON"} THEN date
    ELSE IF op \in {"NewTime", "Time.Scan", "Time.UnmarshalJSON"} THEN tod
    ELSE stamp

\* The text of the last call's argument, quotes removed for a document.
ArgText ==
    IF arg.kind = "string" THEN arg.s
    ELSE IF arg.kind = "bytes"
         THEN (IF op \in UnmarshalOps THEN StripQuotes(arg.data) ELSE arg.data)
    ELSE <<>>

\* The last call carried one of the five absence markers: driver NULL,
\* driver text "", driver empty bytes, document null, document "".
MarkerCall ==
    \/ op \in ScanOps /\ arg \in {Nil, StringOf(<<>>), BytesOf(<<>>)}
    \/ op \in UnmarshalOps /\ arg \in {BytesOf(NullLiteral), BytesOf(EmptyStringLiteral)}

\* A database round trip of x: Scan, on a fresh instance, of what x.Value()
\* returns succeeds and gives a present instance holding x's value.
StringDBRoundTrip(x) ==
    LET r == StringScan(AbsentString, StringValue(x))
    IN  ~r.err /\ r.self.Valid /\ r.self.Val = x.Val

DateDBRoundTrip(x) ==
    LET r == DateScan(AbsentTime, DateValue(x))
    IN  ~r.err /\ r.self.Valid /\ Equal(r.self.Time, x.Time)

TimeDBRoundTrip(x) ==
    LET r == TimeScan(AbsentTime, TimeValue(x))
    IN  ~r.err /\ r.self.Valid /\ Equal(r.self.Time, x.Time)

TimestampDBRoundTrip(x) ==
    LET r == TimestampScan(AbsentTime, TimestampValue(x))
    IN  ~r.err /\ r.self.Valid /\ Equal(r.self.Time, x.Time)

\* C1 (as claimed). Every present instance a public constructor has just
\* produced survives a database round trip: Scan of its Value() succeeds and
\* gives a present instance with the same value (the same text for String,
\* the same instant for Date, Time and Timestamp).
C1_DatabaseRoundTrip ==
    /\ op = "NewString" => StringDBRoundTrip(str)
    /\ op = "NewDate" => DateDBRoundTrip(date)
    /\ op = "NewTime" => TimeDBRoundTrip(tod)
    /\ op \in {"NewTimestamp", "CombineDateAndTime"} => TimestampDBRoundTrip(stamp)

\* A document round trip of x: UnmarshalJSON, on a fresh instance, of the
\* bytes x.MarshalJSON() returns.
StringDocRoundTrip(x) ==
    LET r == StringUnmarshalJSON(AbsentString, StringMarshalJSON(x).data)
    IN  ~r.err /\ r.self.Valid /\ r.self.Val = x.Val

DateDocRoundTrip(x) ==
    LET r == DateUnmarshalJSON(AbsentTime, DateMarshalJSON(x).data)
    IN  ~r.err /\ r.self.Valid /\ Equal(r.self.Time, x.Time)

TimeDocRoundTrip(x) ==
    LET r == TimeUnmarshalJSON(AbsentTime, TimeMarshalJSON(x).data)
    IN  ~r.err /\ r.self.Valid /\ Equal(r.self.Time, x.Time)

TimestampDocRoundTrip(x) ==
    LET r == TimestampUnmarshalJSON(AbsentTime, TimestampMarshalJSON(x).data)
    IN  ~r.err /\ r.self.Valid /\ Equal(r.self.Time, x.Time)

\* C2 (as claimed). Every present instance a public constructor has just
\* produced survives a document round trip: UnmarshalJSON of its
\* MarshalJSON() succeeds and gives a present instance with the same value;
\* a present String holding the empty text comes back present.
C2_DocumentRoundTrip ==
    /\ op = "NewString" => StringDocRoundTrip(str)
    /\ op = "NewDate" => DateDocRoundTrip(date)
    /\ op = "NewTime" => TimeDocRoundTrip(tod)
    /\ op \in {"NewTimestamp", "CombineDateAndTime"} => TimestampDocRoundTrip(stamp)

StringOps == {"NewString", "String.Scan", "String.UnmarshalJSON"}

\* C3 (as claimed). For each of the four types, decoding an absence marker
\* (driver NULL, driver text "", driver empty bytes, document null, document
\* "") succeeds and leaves the instance not present.
C3_MarkersGiveAbsent ==
    MarkerCall => (ret = Ok /\ ~Receiver.Valid)

\* C3 (amended). For Date, Time and Timestamp each of the five markers
\* leaves the instance not present; for String only driver NULL and document
\* null do, and driver text "", driver empty bytes and document "" leave it
\* present holding the empty text.
C3_MarkersGiveAbsentExceptEmptyString ==
    MarkerCall =>
        /\ ret = Ok
        /\ IF op \in StringOps /\ arg \notin {Nil, BytesOf(NullLiteral)}
           THEN str = NewString(<<>>)
           ELSE ~Receiver.Valid

\* A document "" has just been decoded into the String, which is present.
C3_Witness ==
    /\ op = "String.UnmarshalJSON"
    /\ arg = BytesOf(EmptyStringLiteral)
    /\ str.Valid

AllDigits(s, positions) == \A i \in positions : isDigit(s, i)

\* The grammar of a Date text: YYYY-MM-DD.
DateGrammar(s) ==
    /\ Len(s) = 10
    /\ AllDigits(s, {1, 2, 3, 4, 6, 7, 9, 10})
    /\ s[5] = "-" /\ s[8] = "-"

\* The grammar of a Time text: zero-padded HH:MM, read from the first
\* TimeTextLen characters of a longer text.
TimeGrammar(s) ==
    LET c == IF Len(s) > TimeTextLen THEN Take(s, TimeTextLen) ELSE s
    IN  Len(c) = 5 /\ AllDigits(c, {1, 2, 4, 5}) /\ c[3] = ":"

\* The grammar of a Timestamp text: RFC 3339, YYYY-MM-DDTHH:MM:SS, an
\* optional fraction of a second, then Z or an offset +HH:MM or -HH:MM.
TimestampGrammar(s) ==
    /\ Len(s) >= 20
    /\ DateGrammar(Take(s, 10))
    /\ s[11] = "T"
    /\ AllDigits(s, {12, 13, 15, 16, 18, 19})
    /\ s[14] = ":" /\ s[17] = ":"
    /\ LET r == Drop(s, 19)
           z == IF StartsWith(r, ".") THEN Drop(r, 1 + CountDigits(r, 2)) ELSE r
       IN  /\ StartsWith(r, ".") => isDigit(r, 2)
           /\ \/ z = <<"Z">>
              \/ /\ Len(z) = 6 /\ z[1] \in {"+", "-"}
                 /\ AllDigits(z, {2, 3, 5, 6}) /\ z[4] = ":"

RECURSIVE WellEscaped(_)
\* The body of a JSON string literal over the characters of the inputs.
WellEscaped(b) ==
    \/ b = <<>>
    \/ Head(b) \notin {Quote, Backslash} /\ WellEscaped(Tail(b))
    \/ /\ Head(b) = Backslash /\ Len(b) >= 2 /\ b[2] \in {Quote, Backslash}
       /\ WellEscaped(Drop(b, 2))

\* The grammar of a String document: a JSON string literal.
StringDocGrammar(b) ==
    /\ Len(b) >= 2 /\ b[1] = Quote /\ b[Len(b)] = Quote
    /\ WellEscaped(SubSeq(b, 2, Len(b) - 1))

\* The text of the last call matches the grammar of the type it was given to.
ArgInGrammar ==
    IF op \in {"Date.Scan", "Date.UnmarshalJSON"} THEN DateGrammar(ArgText)
    ELSE IF op \in {"Time.Scan", "Time.UnmarshalJSON"} THEN TimeGrammar(ArgText)
    ELSE IF op \in {"Timestamp.Scan", "Timestamp.UnmarshalJSON"}
         THEN TimestampGrammar(ArgText)
    ELSE IF op = "String.UnmarshalJSON"
         THEN arg.data = NullLiteral \/ StringDocGrammar(arg.data)
    ELSE TRUE

\* Whatever it is given, a decoding call that returns an error leaves its
\* receiver as it was.
ErrorKeepsReceiver ==
    /\ \A v \in StringDriverValues :
           StringScan(str, v).err => StringScan(str, v).self = str
    /\ \A b \in StringDocs :
           StringUnmarshalJSON(str, b).err => StringUnmarshalJSON(str, b).self = str
    /\ \A v \in TemporalDriverValues(DateTexts) :
           DateScan(date, v).err => DateScan(date, v).self = date
    /\ \A b \in TemporalDocs(DateTexts) :
           DateUnmarshalJSON(date, b).err => DateUnmarshalJSON(date, b).self = date
    /\ \A v \in TemporalDriverValues(TimeTexts) :
           TimeScan(tod, v).err => TimeScan(tod, v).self = tod
    /\ \A b \in TemporalDocs(TimeTexts) :
           TimeUnmarshalJSON(tod, b).err => TimeUnmarshalJSON(tod, b).self = tod
    /\ \A v \in TemporalDriverValues(TimestampTexts) :
           TimestampScan(stamp, v).err => TimestampScan(stamp, v).self = stamp
    /\ \A b \in TemporalDocs(TimestampTexts) :
           TimestampUnmarshalJSON(stamp, b).err
               => TimestampUnmarshalJSON(stamp, b).self = stamp

\* C4 (as claimed). For each of the four types, Scan of a value of an
\* unsupported kind returns an error, Scan and UnmarshalJSON of a non-empty
\* text that does not match the type's grammar return an error, and a call
\* that returns an error leaves the receiver's value and present flag as
\* they were.
C4_FailureIsAtomic ==
    /\ (op \in ScanOps /\ arg.kind = "int64") => ret = Error
    /\ ( /\ op \in ScanOps \cup UnmarshalOps
         /\ arg.kind \in {"string", "bytes"}
         /\ ~MarkerCall
         /\ ~ArgInGrammar ) => ret = Error
    /\ ErrorKeepsReceiver

\* C6 (as claimed). After NewDate(t) or Date.Scan(t) of a date-time t in
\* any UTC offset, the Date is present, its value is 00:00:00 of t's
\* calendar day in t's location, and String(), Value() and MarshalJSON()
\* give the year, month and day of t as YYYY-MM-DD.
C6_DateTruncation ==
    (op \in {"NewDate", "Date.Scan"} /\ arg.kind = "time") =>
        /\ date.Valid
        /\ Equal(date.Time,
                 GoDate(Year(arg.t), Month(arg.t), Day(arg.t), 0, 0, 0, 0, arg.t.off))
        /\ DateString(date) = FormatDate(arg.t)
        /\ DateValue(date) = StringOf(FormatDate(arg.t))
        /\ DateMarshalJSON(date) = BytesOf(Quoted(FormatDate(arg.t)))

\* C7 (as claimed). Every present Timestamp, however it was produced, holds
\* a value in UTC with no sub-second component.
C7_TimestampCanonical ==
    stamp.Valid => (stamp.Time.off = 0 /\ stamp.Time.nsec = 0)

\* C9 (as claimed). For Date, Time and Timestamp, IsZero() is true exactly
\* when the instance is not present, which is exactly when String() is the
\* empty text.
C9_IsZeroMeansAbsent ==
    /\ DateIsZero(date) <=> ~date.Valid
    /\ TimeIsZero(tod) <=> ~tod.Valid
    /\ TimestampIsZero(stamp) <=> ~stamp.Valid
    /\ ~date.Valid <=> DateString(date) = <<>>
    /\ ~tod.Valid <=> TimeString(tod) = <<>>
    /\ ~stamp.Valid <=> TimestampString(stamp) = <<>>

\* C10 (as claimed). CombineDateAndTime(d, t) is present whatever the
\* presence of d and t, and is the Timestamp, in UTC, of d's year, month and
\* day at t's hour and minute with seconds 0: YYYY-MM-DDTHH:MM:00Z.
C10_CombineInUTC ==
    op = "CombineDateAndTime" =>
        /\ stamp.Valid
        /\ Year(stamp.Time) = Year(date.Time)
        /\ Month(stamp.Time) = Month(date.Time)
        /\ Day(stamp.Time) = Day(date.Time)
        /\ Hour(stamp.Time) = Hour(tod.Time)
        /\ Minute(stamp.Time) = Minute(tod.Time)
        /\ Second(stamp.Time) = 0
        /\ stamp.Time.off = 0
        /\ TimestampString(stamp)
             = FormatDate(date.Time) \o <<"T">> \o FormatClock(tod.Time)
               \o <<":", "0", "0", "Z">>

TwoDigits(s, i) == 10 * DigitVal(s[i]) + DigitVal(s[i + 1])

\* The last call gave a Time a date-time, or a text HH:MM or HH:MM followed
\* by more, with an hour below 24 and a minute below 60.
GivenClock ==
    /\ op \in {"NewTime", "Time.Scan", "Time.UnmarshalJSON"}
    /\ \/ arg.kind = "time"
       \/ /\ arg.kind \in {"string", "bytes"}
          /\ TimeGrammar(ArgText)
          /\ TwoDigits(ArgText, 1) < 24 /\ TwoDigits(ArgText, 4) < 60

\* The hour and the minute it gave.
GivenHour == IF arg.kind = "time" THEN Hour(arg.t) ELSE TwoDigits(ArgText, 1)

GivenMinute == IF arg.kind = "time" THEN Minute(arg.t) ELSE TwoDigits(ArgText, 4)

\* The offset written at the end of an RFC 3339 text.
WrittenOffset(s) ==
    IF s[Len(s)] = "Z" THEN 0
    ELSE LET z   == Drop(s, Len(s) - 6)
             mag == TwoDigits(z, 2) * SecondsPerHour + TwoDigits(z, 5) * SecondsPerMinute
         IN  IF z[1] = "-" THEN -mag ELSE mag

\* The instant an RFC 3339 text names, without its fraction of a second.
WrittenInstant(s) ==
    GoDate(100 * TwoDigits(s, 1) + TwoDigits(s, 3), TwoDigits(s, 6), TwoDigits(s, 9),
           TwoDigits(s, 12), TwoDigits(s, 15), TwoDigits(s, 18), 0, WrittenOffset(s))

\* The last call gave a Timestamp a date-time or an RFC 3339 text.
GivenInstant ==
    /\ op \in {"NewTimestamp", "Timestamp.Scan", "Timestamp.UnmarshalJSON"}
    /\ \/ arg.kind = "time"
       \/ arg.kind \in {"string", "bytes"} /\ TimestampGrammar(ArgText)

\* The whole seconds of the instant it gave, in UTC.
GivenWholeSeconds ==
    LET t == IF arg.kind = "time" THEN arg.t ELSE WrittenInstant(ArgText)
    IN  [day |-> t.day, sod |-> t.sod, nsec |-> 0, off |-> 0]

\* C5. Whatever the entry path (constructor, Scan of a date-time, Scan of a
\* text or of bytes, UnmarshalJSON), the Time built is the present Time of
\* the hour and minute given, so that 12:34:56 and 12:34 give equal Times;
\* and the Timestamp built is the present Timestamp of the whole seconds of
\* the instant given, in UTC, so that an instant with a fraction of a second
\* and the same instant truncated to the second give equal Timestamps.
C5_TruncationConsistency ==
    /\ GivenClock =>
           /\ ret = Ok
           /\ tod = [Time |-> Anchored(GivenHour, GivenMinute), Valid |-> TRUE]
    /\ GivenInstant =>
           /\ ret = Ok
           /\ stamp = [Time |-> GivenWholeSeconds, Valid |-> TRUE]

\* The reading of Clock as HH:MM:SS.
ClockTextHMS == Pad2(Clock.h) \o <<":">> \o Pad2(Clock.mi) \o <<":">> \o Pad2(Clock.s)

\* The text 12:34:56 has just been scanned into the Time, which is 12:34.
C5_Witness ==
    /\ op = "Time.Scan"
    /\ arg = StringOf(ClockTextHMS)
    /\ tod = [Time |-> Anchored(Clock.h, Clock.mi), Valid |-> TRUE]
    /\ Clock.s # 0

\* C8. For each of the four types, Value() is the driver NULL exactly when
\* the instance is not present and MarshalJSON() is the literal null exactly
\* when it is not present; a present String holding the empty text encodes
\* as the text "" and the literal "".
C8_NullOnlyWhenAbsent ==
    /\ StringValue(str) = Nil <=> ~str.Valid
    /\ DateValue(date) = Nil <=> ~date.Valid
    /\ TimeValue(tod) = Nil <=> ~tod.Valid
    /\ TimestampValue(stamp) = Nil <=> ~stamp.Valid
    /\ StringMarshalJSON(str) = BytesOf(NullLiteral) <=> ~str.Valid
    /\ DateMarshalJSON(date) = BytesOf(NullLiteral) <=> ~date.Valid
    /\ TimeMarshalJSON(tod) = BytesOf(NullLiteral) <=> ~tod.Valid
    /\ TimestampMarshalJSON(stamp) = BytesOf(NullLiteral) <=> ~stamp.Valid
    /\ (str.Valid /\ str.Val = <<>>) =>
           /\ StringValue(str) = StringOf(<<>>)
           /\ StringMarshalJSON(str) = BytesOf(EmptyStringLiteral)

\* A present String holding the empty text has just been built from "".
C8_Witness ==
    /\ op = "NewString"
    /\ str = NewString(<<>>)
    /\ StringMarshalJSON(str) = BytesOf(EmptyStringLiteral)

\* The last call decoded, into the Time, a text longer than TimeTextLen.
LongTimeTextCall ==
    /\ op \in {"Time.Scan", "Time.UnmarshalJSON"}
    /\ arg.kind \in {"string", "bytes"}
    /\ Len(ArgText) > TimeTextLen

\* The first TimeTextLen characters of that text.
GivenPrefix == Take(ArgText, TimeTextLen)

\* They are a 24-hour HH:MM.
PrefixIsClock ==
    /\ AllDigits(GivenPrefix, {1, 2, 4, 5})
    /\ GivenPrefix[3] = ":"
    /\ TwoDigits(GivenPrefix, 1) < 24
    /\ TwoDigits(GivenPrefix, 4) < 60

\* The text 09:15:30.
NineFifteenThirty == <<"0", "9", ":", "1", "5", ":", "3", "0">>

\* C11. Decoding a text longer than 5 characters into a Time, by Scan of
\* the text or of bytes or by UnmarshalJSON of the text in quotes, has the
\* outcome of decoding its first 5 characters, whatever the receiver holds:
\* an error if they are not a 24-hour HH:MM, and otherwise the present Time
\* of that hour and minute with seconds 0, whatever follows them; 09:15:30
\* gives the present 09:15, whose document is "09:15".
C11_TimeTextPrefix ==
    /\ \A s \in LongTimeTexts :
           /\ TimeScan(tod, StringOf(s)) = TimeScan(tod, StringOf(Take(s, TimeTextLen)))
           /\ TimeScan(tod, BytesOf(s)) = TimeScan(tod, BytesOf(Take(s, TimeTextLen)))
           /\ TimeUnmarshalJSON(tod, Quoted(s))
                = TimeUnmarshalJSON(tod, Quoted(Take(s, TimeTextLen)))
    /\ LongTimeTextCall =>
           IF PrefixIsClock
           THEN /\ ret = Ok
                /\ tod = [Time |-> Anchored(TwoDigits(GivenPrefix, 1),
                                            TwoDigits(GivenPrefix, 4)),
                          Valid |-> TRUE]
                /\ Second(tod.Time) = 0
           ELSE ret = Error
    /\ (LongTimeTextCall /\ ArgText = NineFifteenThirty) =>
           TimeMarshalJSON(tod) = BytesOf(Quoted(<<"0", "9", ":", "1", "5">>))

\* The bytes 09:15:30 have just been scanned into the Time, which is the
\* present 09:15.
C11_Witness ==
    /\ op = "Time.Scan"
    /\ arg = BytesOf(NineFifteenThirty)
    /\ ret = Ok
    /\ tod = [Time |-> Anchored(9, 15), Valid |-> TRUE]

\* C12 (as claimed). For every present Timestamp, however it was produced,
\* String() is the text inside the quotes of MarshalJSON(), and is the
\* RFC 3339 rendering, in UTC and to the second, of the instant Value()
\* returns.
C12_TimestampReadPathsAgree ==
    stamp.Valid =>
        LET v == TimestampValue(stamp).t
        IN  /\ TimestampString(stamp) = StripQuotes(TimestampMarshalJSON(stamp).data)
            /\ TimestampString(stamp)
                 = FormatRFC3339([day |-> v.day, sod |-> v.sod, nsec |-> 0, off |-> 0])

====
